---- MODULE Spec2Model ----
(***************************************************************************)
(* The sudoku core: Grid (grid.rs), Checker (checker.rs), Game (game.rs)   *)
(* and Solver (solver.rs) as one state machine.  Positions are (x, y)      *)
(* pairs counted from 0 as in the source; a Vec is a sequence, so the cell *)
(* with Rust index i is cells[i + 1].                                      *)
(***************************************************************************)
EXTENDS Integers, Sequences, FiniteSets, TLC

VARIABLES
    phase,               \* where the caller is: "input", "rejected", "grid", "game", "solver", "aborted"
    input,               \* the Vec<usize> handed to Grid::new / Game::new
    cells,               \* Grid.cells[i].value
    readonly,            \* Grid.cells[i].readonly
    side_size,           \* Grid.side_size
    sub_square_size,     \* Grid.sub_square_size
    entries,             \* Game.entries (undo history)
    invalid_subsections, \* Game.invalid_subsections
    is_complete,         \* Game.is_complete
    empty_positions,     \* Solver.empty_positions
    entries_added,       \* Solver.entries_added
    values,              \* Checker.values of the Checker called on its own
    ret                  \* the last call and what it returned

vars == <<phase, input, cells, readonly, side_size, sub_square_size, entries,
          invalid_subsections, is_complete, empty_positions, entries_added, values,
          ret>>

grid_vars == <<cells, readonly, side_size, sub_square_size>>
game_vars == <<entries, invalid_subsections, is_complete>>
solver_vars == <<empty_positions, entries_added>>

(***************************************************************************)
(* Bounds of the model.                                                    *)
(***************************************************************************)
\* longest undo history the caller builds with add_entry / unset_cell
MaxEntries == 2
\* how many of BlankCandidates are blanked out of the solved board at most
MaxBlank == 2
\* newest elements the model retains of a Vec that Solver::next grows
MaxStack == 14

(***************************************************************************)
(* Boards.                                                                 *)
(***************************************************************************)
\* the input board of tests::solves_a_valid_game (also app.rs DUMMY_CELLS)
DummyCells ==
    << 4, 6, 7, 1, 0, 0, 8, 0, 5,
       9, 1, 2, 8, 3, 5, 6, 0, 7,
       0, 8, 5, 6, 4, 7, 1, 9, 2,
       2, 9, 6, 3, 5, 1, 4, 7, 0,
       7, 0, 8, 9, 2, 0, 3, 5, 1,
       5, 3, 1, 4, 0, 8, 9, 2, 6,
       0, 7, 3, 0, 6, 4, 5, 1, 0,
       6, 2, 4, 5, 1, 9, 7, 8, 3,
       1, 5, 9, 7, 8, 3, 0, 6, 4 >>

\* the board tests::solves_a_valid_game expects
SolvedCells ==
    << 4, 6, 7, 1, 9, 2, 8, 3, 5,
       9, 1, 2, 8, 3, 5, 6, 4, 7,
       3, 8, 5, 6, 4, 7, 1, 9, 2,
       2, 9, 6, 3, 5, 1, 4, 7, 8,
       7, 4, 8, 9, 2, 6, 3, 5, 1,
       5, 3, 1, 4, 7, 8, 9, 2, 6,
       8, 7, 3, 2, 6, 4, 5, 1, 9,
       6, 2, 4, 5, 1, 9, 7, 8, 3,
       1, 5, 9, 7, 8, 3, 2, 6, 4 >>

\* board with the cells at the Rust indices in S emptied
Blanked(board, S) == [i \in 1..Len(board) |-> IF (i - 1) \in S THEN 0 ELSE board[i]]

\* board with the cell at Rust index i overwritten
Overwritten(board, i, v) == [board EXCEPT ![i + 1] = v]

\* Rust indices of cells of the solved board that boards are made from:
\* (4,0) holds 9, (3,0) holds 1, (5,0) holds 2, (7,1) holds 4
BlankCandidates == << 4, 3, 5, 16 >>

BlankSets == {{BlankCandidates[k] : k \in 1..n} : n \in 0..MaxBlank}

\* (5,1) needs 5 but 2 fits as well until (2,1) turns out to need the 2
BacktrackBoard == Blanked(SolvedCells, {14, 11, 5})

\* two 4s in row 0: the clues conflict
ConflictBoard == Overwritten(Blanked(SolvedCells, {4}), 1, 4)

Zeros(n) == [i \in 1..n |-> 0]

\* a 4x4 board with two clues
SmallBoard == Overwritten(Overwritten(Zeros(16), 0, 1), 5, 3)

\* a 16x16 board: the 9x9 pattern repeated, so that rows and columns repeat
\* values beyond their ninth cell; (0,0) would hold 4 and is left empty
WideBoard ==
    [i \in 1..256 |->
        IF i = 1 THEN 0
        ELSE SolvedCells[(((i - 1) \div 16) % 9) * 9 + (((i - 1) % 16) % 9) + 1]]

Boards9 ==
    {DummyCells, BacktrackBoard, ConflictBoard}
        \cup {Blanked(SolvedCells, S) : S \in BlankSets}

\* lengths Grid::new refuses, and 0
BadLengths == {0, 1, 3, 6, 9}

\* 4x4 boards holding values above 4, first at Rust index 2
BadValueBoards ==
    {Overwritten(Zeros(16), 2, 5), Overwritten(Overwritten(Zeros(16), 2, 7), 9, 5)}

\* 9x9 boards for the Checker: the first RowFree cells of row 0 hold any of
\* 0, 1, 2, the rest of row 0 is empty or holds 3, 4, ..., and rows 1..8 are
\* empty
RowFree == 4
RowHeads == [1..RowFree -> {0, 1, 2}]
RowBoard(head, filled) ==
    [i \in 1..81 |->
        IF i <= RowFree THEN head[i]
        ELSE IF i <= 9 /\ filled THEN i - RowFree + 2
        ELSE 0]
RowBoards == {RowBoard(head, filled) : head \in RowHeads, filled \in BOOLEAN}

Inputs ==
    Boards9 \cup {SmallBoard, Zeros(16), WideBoard}
        \cup {Zeros(n) : n \in BadLengths} \cup BadValueBoards

\* F applied to the value of v, with v evaluated once
Then(v, F(_)) == CHOOSE y \in {F(x) : x \in {v}} : TRUE

(***************************************************************************)
(* Grid (grid.rs).                                                         *)
(***************************************************************************)
\* square_root: Some(r) is <<r>>, None is <<>>
square_root(n) ==
    IF \E r \in 0..n : r * r = n
        THEN << CHOOSE r \in 0..n : r * r = n >>
        ELSE << >>

\* indices (from 0) of the input values above side
TooLarge(cs, side) == {i \in 0..(Len(cs) - 1) : cs[i + 1] > side}

\* the largest element, as a scan from the end would find first
Largest(S) == CHOOSE m \in S : \A n \in S : m >= n

Min(S) == CHOOSE m \in S : \A n \in S : m <= n

\* Grid::new: [ok |-> TRUE, ...the Grid's fields] or [ok |-> FALSE, err, index]
\* (index is the i of InvalidCellValue(i))
GridNewResult(cs) ==
    IF Len(cs) = 1 THEN [ok |-> FALSE, err |-> "InvalidGridSize", index |-> 0]
    ELSE IF square_root(Len(cs)) = << >> THEN [ok |-> FALSE, err |-> "InvalidGridSize", index |-> 0]
    ELSE LET side == square_root(Len(cs))[1] IN
         IF square_root(side) = << >> THEN [ok |-> FALSE, err |-> "InvalidGridSize", index |-> 0]
         ELSE IF TooLarge(cs, side) # {}
             THEN [ok |-> FALSE, err |-> "InvalidCellValue", index |-> Min(TooLarge(cs, side))]
         ELSE [ok |-> TRUE,
               cells |-> cs,
               readonly |-> [i \in 1..Len(cs) |-> cs[i] # 0],
               side_size |-> side,
               sub_square_size |-> square_root(side)[1]]

\* a get_cell_index that lays the cells out column by column
get_cell_index_column_major(side, pos) ==
    IF pos[1] >= side \/ pos[2] >= side
        THEN << >>
        ELSE << pos[1] * side + pos[2] >>

\* Grid::get_cell_index: Ok(i) is <<i>>, Err(CellOutOfBounds) is <<>>
get_cell_index(side, pos) ==
    IF pos[1] >= side \/ pos[2] >= side
        THEN << >>
        ELSE << pos[2] * side + pos[1] >>

\* Grid::get_cell: Ok(v) is <<v>>, Err(CellOutOfBounds) is <<>>
get_cell(cs, side, pos) ==
    LET i == get_cell_index(side, pos) IN
    IF i = << >> THEN << >> ELSE << cs[i[1] + 1] >>

\* a set_cell that overwrites clues as well
set_cell_no_readonly_check(cs, ro, side, pos, value) ==
    IF get_cell_index(side, pos) = << >>
        THEN [res |-> "CellOutOfBounds", prev |-> 0, cells |-> cs]
    ELSE LET i == get_cell_index(side, pos)[1] + 1 IN
         [res |-> "Ok", prev |-> cs[i], cells |-> [cs EXCEPT ![i] = value]]

\* a set_cell that writes the value before it looks at the readonly flag
set_cell_writes_before_check(cs, ro, side, pos, value) ==
    IF get_cell_index(side, pos) = << >>
        THEN [res |-> "CellOutOfBounds", prev |-> 0, cells |-> cs]
    ELSE LET i == get_cell_index(side, pos)[1] + 1 IN
         IF ro[i]
             THEN [res |-> "ReadonlyCellMutation", prev |-> 0,
                   cells |-> [cs EXCEPT ![i] = value]]
             ELSE [res |-> "Ok", prev |-> cs[i], cells |-> [cs EXCEPT ![i] = value]]

\* Grid::set_cell: the result, the previous value (when Ok) and the cells after
set_cell(cs, ro, side, pos, value) ==
    IF get_cell_index(side, pos) = << >>
        THEN [res |-> "CellOutOfBounds", prev |-> 0, cells |-> cs]
    ELSE LET i == get_cell_index(side, pos)[1] + 1 IN
         IF ro[i]
             THEN [res |-> "ReadonlyCellMutation", prev |-> 0, cells |-> cs]
             ELSE [res |-> "Ok", prev |-> cs[i], cells |-> [cs EXCEPT ![i] = value]]

\* Grid::reset
grid_reset(cs, ro) == [i \in 1..Len(cs) |-> IF ro[i] THEN cs[i] ELSE 0]

\* GridSubsectionType
Row(j) == <<"Row", j, 0>>
Column(i) == <<"Column", i, 0>>
Square(i, j) == <<"Square", i, j>>

\* GridSubsection::next stops once current > 8
IterCount == 9
\* GridSubsection::next steps a Square in blocks of 3
SquareStep == 3

\* GridSubsection::next at current = c
SubsectionPosition(t, c) ==
    IF t[1] = "Row" THEN <<c, t[2]>>
    ELSE IF t[1] = "Column" THEN <<t[2], c>>
    ELSE <<t[2] * SquareStep + (c % SquareStep), t[3] * SquareStep + (c \div SquareStep)>>

\* GridSubsectionValues::next unwraps get_cell: iterating to the end aborts
\* when a yielded position is out of bounds
SubsectionPanics(side, t) ==
    \E k \in 1..IterCount : get_cell_index(side, SubsectionPosition(t, k - 1)) = << >>

\* the values a GridSubsectionValues yields when iterated to the end
\* (only where SubsectionPanics is false)
SubsectionValues(cs, side, t) ==
    [k \in 1..IterCount |-> get_cell(cs, side, SubsectionPosition(t, k - 1))[1]]

\* Grid::get_row_values: the subsection types, in order
RowTypes(side) == [k \in 1..side |-> Row(k - 1)]

\* a get_all_subsection_values that takes the box of index i from i % sub alone
AllSubsectionTypes_diagonal_boxes(side, sub) ==
    [k \in 1..(3 * side) |->
        LET i == (k - 1) \div 3 IN
        IF (k - 1) % 3 = 0 THEN Row(i)
        ELSE IF (k - 1) % 3 = 1 THEN Column(i)
        ELSE Square(i % sub, i % sub)]

\* Grid::get_all_subsection_values: the subsection types, in order
AllSubsectionTypes(side, sub) ==
    [k \in 1..(3 * side) |->
        LET i == (k - 1) \div 3 IN
        IF (k - 1) % 3 = 0 THEN Row(i)
        ELSE IF (k - 1) % 3 = 1 THEN Column(i)
        ELSE Square(i % sub, i \div sub)]

(***************************************************************************)
(* Checker (checker.rs).                                                   *)
(***************************************************************************)
\* the fold of check_subsection from element k on: seen is self.values
RECURSIVE CheckFold(_, _, _, _)
CheckFold(vals, k, seen, acc) ==
    IF k > Len(vals)
        THEN [valid |-> acc, complete |-> 0 \notin seen]
    ELSE IF vals[k] # 0 /\ vals[k] \in seen
        THEN CheckFold(vals, k + 1, seen, FALSE)
        ELSE CheckFold(vals, k + 1, seen \cup {vals[k]}, acc)

\* a fold that stops scanning at the first duplicate
RECURSIVE CheckFoldStops(_, _, _, _)
CheckFoldStops(vals, k, seen, acc) ==
    IF k > Len(vals)
        THEN [valid |-> acc, complete |-> 0 \notin seen]
    ELSE IF vals[k] # 0 /\ vals[k] \in seen
        THEN [valid |-> FALSE, complete |-> 0 \notin seen]
        ELSE CheckFoldStops(vals, k + 1, seen \cup {vals[k]}, acc)

\* a check_subsection that reports on the cells up to the first duplicate only
check_subsection_stops_at_duplicate(vals) == CheckFoldStops(vals, 1, {}, TRUE)

\* Checker::check_subsection: CheckerResult
check_subsection(vals) == CheckFold(vals, 1, {}, TRUE)

\* a check_subsection that does not clear self.values before it folds
check_subsection_keeps_values(seen, vals) ==
    [result |-> CheckFold(vals, 1, seen, TRUE),
     values |-> seen \cup {vals[k] : k \in 1..Len(vals)}]

\* Checker::check_subsection with the Checker's field: seen is self.values
\* before the call (cleared first), values is self.values after it
check_subsection_on(seen, vals) ==
    [result |-> check_subsection(vals),
     values |-> {vals[k] : k \in 1..Len(vals)}]

\* Checker::check_subsections on one Checker, from the k-th subsection on:
\* the pairs collected and self.values at the end
RECURSIVE check_subsections_on(_, _, _, _, _)
check_subsections_on(seen, ts, cs, side, k) ==
    IF k > Len(ts) THEN [pairs |-> << >>, values |-> seen]
    ELSE LET r == check_subsection_on(seen, SubsectionValues(cs, side, ts[k]))
             rest == check_subsections_on(r.values, ts, cs, side, k + 1)
         IN  [pairs |-> << <<ts[k], r.result>> >> \o rest.pairs, values |-> rest.values]

\* Checker::check_subsections over the subsections of types ts of a grid
check_subsections(ts, cs, side) ==
    [k \in 1..Len(ts) |->
        <<ts[k], Then(SubsectionValues(cs, side, ts[k]), check_subsection)>>]

(***************************************************************************)
(* Game (game.rs).  A grid is [cells, readonly, side_size, sub_square_size]*)
(* and a game [grid, entries, invalid_subsections, is_complete].           *)
(***************************************************************************)
\* Game::from_grid
from_grid(gr) ==
    [grid |-> gr, entries |-> << >>, invalid_subsections |-> << >>, is_complete |-> FALSE]

\* whether apply_checker aborts: it iterates every subsection to the end
ApplyCheckerPanics(gr) ==
    \E t \in {AllSubsectionTypes(gr.side_size, gr.sub_square_size)[k] :
                  k \in 1..(3 * gr.side_size)} :
        SubsectionPanics(gr.side_size, t)

\* the (type, result) pairs apply_checker loops over
CheckerResults(gr) ==
    Then(AllSubsectionTypes(gr.side_size, gr.sub_square_size),
         LAMBDA ts : check_subsections(ts, gr.cells, gr.side_size))

IsInvalid(pair) == ~pair[2].valid

TypeOf(pairs) == [k \in 1..Len(pairs) |-> pairs[k][1]]

AllComplete(pairs) == \A k \in 1..Len(pairs) : pairs[k][2].complete

\* an apply_checker that adds to the invalid_subsections it finds cached
apply_checker_incremental(gm) ==
    IF ApplyCheckerPanics(gm.grid)
        THEN [panic |-> TRUE,
              game |-> [gm EXCEPT !.invalid_subsections = << >>, !.is_complete = TRUE]]
        ELSE Then(CheckerResults(gm.grid), LAMBDA pairs :
             [panic |-> FALSE,
              game |-> [gm EXCEPT
                  !.invalid_subsections =
                      gm.invalid_subsections \o TypeOf(SelectSeq(pairs, IsInvalid)),
                  !.is_complete = AllComplete(pairs)]])

\* Game::apply_checker: the game after, or the abort in the middle of it
apply_checker(gm) ==
    IF ApplyCheckerPanics(gm.grid)
        THEN [panic |-> TRUE,
              game |-> [gm EXCEPT !.invalid_subsections = << >>, !.is_complete = TRUE]]
        ELSE Then(CheckerResults(gm.grid), LAMBDA pairs :
             [panic |-> FALSE,
              game |-> [gm EXCEPT
                  !.invalid_subsections = TypeOf(SelectSeq(pairs, IsInvalid)),
                  !.is_complete = AllComplete(pairs)]])

NoEntry == [position |-> <<0, 0>>, value |-> 0, previous_value |-> 0]

\* Game::add_entry: res is "Ok", an error or "panic"; entry is what Ok carries
add_entry(gm, pos, value) ==
    LET gr == gm.grid
        prev == get_cell(gr.cells, gr.side_size, pos)
        sc == set_cell(gr.cells, gr.readonly, gr.side_size, pos, value)
    IN  IF prev = << >> THEN [res |-> "CellOutOfBounds", entry |-> NoEntry, game |-> gm]
        ELSE IF sc.res # "Ok"
            THEN [res |-> sc.res, entry |-> NoEntry,
                  game |-> [gm EXCEPT !.grid.cells = sc.cells]]
        ELSE LET entry == [position |-> pos, value |-> value, previous_value |-> prev[1]]
                 pushed == [gm EXCEPT !.grid.cells = sc.cells,
                                      !.entries = Append(gm.entries, entry)]
             IN  Then(Then(pushed, apply_checker), LAMBDA ac :
                     [res |-> IF ac.panic THEN "panic" ELSE "Ok",
                      entry |-> entry, game |-> ac.game])

\* an undo_entry that takes the oldest Entry of the history instead of the
\* newest
undo_entry_oldest_first(gm) ==
    IF gm.entries = << >> THEN [res |-> "None", entry |-> NoEntry, game |-> gm]
    ELSE LET gr == gm.grid
             entry == gm.entries[1]
             popped == [gm EXCEPT !.entries = SubSeq(gm.entries, 2, Len(gm.entries))]
             sc == set_cell(gr.cells, gr.readonly, gr.side_size,
                            entry.position, entry.previous_value)
         IN  IF sc.res # "Ok" THEN [res |-> "panic", entry |-> entry, game |-> popped]
             ELSE Then(Then([popped EXCEPT !.grid.cells = sc.cells], apply_checker), LAMBDA ac :
                      [res |-> IF ac.panic THEN "panic" ELSE "Some",
                       entry |-> entry, game |-> ac.game])

\* an undo_entry that empties the cell instead of restoring previous_value
undo_entry_writes_zero(gm) ==
    IF gm.entries = << >> THEN [res |-> "None", entry |-> NoEntry, game |-> gm]
    ELSE LET gr == gm.grid
             entry == gm.entries[Len(gm.entries)]
             popped == [gm EXCEPT !.entries = SubSeq(gm.entries, 1, Len(gm.entries) - 1)]
             sc == set_cell(gr.cells, gr.readonly, gr.side_size,
                            entry.position, 0)
         IN  IF sc.res # "Ok" THEN [res |-> "panic", entry |-> entry, game |-> popped]
             ELSE Then(Then([popped EXCEPT !.grid.cells = sc.cells], apply_checker), LAMBDA ac :
                      [res |-> IF ac.panic THEN "panic" ELSE "Some",
                       entry |-> entry, game |-> ac.game])

\* Game::undo_entry: res is "Some", "None" or "panic"
undo_entry(gm) ==
    IF gm.entries = << >> THEN [res |-> "None", entry |-> NoEntry, game |-> gm]
    ELSE LET gr == gm.grid
             entry == gm.entries[Len(gm.entries)]
             popped == [gm EXCEPT !.entries = SubSeq(gm.entries, 1, Len(gm.entries) - 1)]
             sc == set_cell(gr.cells, gr.readonly, gr.side_size,
                            entry.position, entry.previous_value)
         IN  IF sc.res # "Ok" THEN [res |-> "panic", entry |-> entry, game |-> popped]
             ELSE Then(Then([popped EXCEPT !.grid.cells = sc.cells], apply_checker), LAMBDA ac :
                      [res |-> IF ac.panic THEN "panic" ELSE "Some",
                       entry |-> entry, game |-> ac.game])

\* an unset_cell that records an Entry for a cell that was empty already
unset_cell_always_records(gm, pos) ==
    LET gr == gm.grid
        sc == set_cell(gr.cells, gr.readonly, gr.side_size, pos, 0)
    IN  IF sc.res # "Ok" THEN [res |-> sc.res, game |-> [gm EXCEPT !.grid.cells = sc.cells]]
        ELSE [res |-> "Ok",
              game |-> [gm EXCEPT
                  !.grid.cells = sc.cells,
                  !.entries = Append(gm.entries,
                      [position |-> pos, value |-> 0, previous_value |-> sc.prev])]]

\* Game::unset_cell
unset_cell(gm, pos) ==
    LET gr == gm.grid
        sc == set_cell(gr.cells, gr.readonly, gr.side_size, pos, 0)
    IN  IF sc.res # "Ok" THEN [res |-> sc.res, game |-> [gm EXCEPT !.grid.cells = sc.cells]]
        ELSE IF sc.prev = 0 THEN [res |-> "Ok", game |-> [gm EXCEPT !.grid.cells = sc.cells]]
        ELSE [res |-> "Ok",
              game |-> [gm EXCEPT
                  !.grid.cells = sc.cells,
                  !.entries = Append(gm.entries,
                      [position |-> pos, value |-> 0, previous_value |-> sc.prev])]]

\* an is_correct that looks at is_complete alone
is_correct_ignores_invalid(gm) == gm.is_complete

\* Game::is_correct
is_correct(gm) == gm.is_complete /\ gm.invalid_subsections = << >>

\* Game::reset
game_reset(gm) ==
    Then(Then([gm EXCEPT
                  !.grid.cells = grid_reset(gm.grid.cells, gm.grid.readonly),
                  !.is_complete = FALSE,
                  !.entries = << >>], apply_checker),
         LAMBDA ac : [res |-> IF ac.panic THEN "panic" ELSE "Ok", game |-> ac.game])

(***************************************************************************)
(* Solver (solver.rs).  A solver is [game, empty_positions, entries_added].*)
(***************************************************************************)
\* the (x, y) that Solver::new enumerates, rows top to bottom
ScanPositions(side) ==
    [k \in 1..(side * IterCount) |-> <<(k - 1) % IterCount, (k - 1) \div IterCount>>]

\* Solver::new: the abort comes from iterating game.get_rows()
solver_new(gm) ==
    LET gr == gm.grid
        IsEmpty(pos) == get_cell(gr.cells, gr.side_size, pos) = <<0>>
    IN  IF \E k \in 1..gr.side_size : SubsectionPanics(gr.side_size, RowTypes(gr.side_size)[k])
            THEN [panic |-> TRUE,
                  solver |-> [game |-> gm, empty_positions |-> << >>, entries_added |-> << >>]]
            ELSE [panic |-> FALSE,
                  solver |-> [game |-> gm,
                              empty_positions |-> SelectSeq(ScanPositions(gr.side_size), IsEmpty),
                              entries_added |-> << >>]]

Last(s) == s[Len(s)]
Front(s) == SubSeq(s, 1, Len(s) - 1)

\* a next_retry that gives up on a cell one candidate early (< for <=)
next_retry_stops_early(sv) ==
    IF sv.entries_added = << >> THEN [panic |-> TRUE, solver |-> sv]
    ELSE LET e == Last(sv.entries_added)
             exhausted == ~(e.value + 1 < sv.game.grid.side_size)
             next_value == IF exhausted THEN 0 ELSE e.value + 1
             popped == [sv EXCEPT
                 !.entries_added = Front(sv.entries_added),
                 !.empty_positions =
                     IF exhausted THEN Append(sv.empty_positions, e.position)
                     ELSE sv.empty_positions]
         IN  Then(add_entry(sv.game, e.position, next_value), LAMBDA r :
                 IF r.res # "Ok"
                     THEN [panic |-> TRUE, solver |-> [popped EXCEPT !.game = r.game]]
                     ELSE [panic |-> FALSE,
                           solver |-> [popped EXCEPT
                               !.game = r.game,
                               !.entries_added = Append(Front(sv.entries_added), r.entry)]])

\* a next_retry that pushes the Entry it popped back instead of the new one
next_retry_keeps_old_entry(sv) ==
    IF sv.entries_added = << >> THEN [panic |-> TRUE, solver |-> sv]
    ELSE LET e == Last(sv.entries_added)
             exhausted == ~(e.value + 1 <= sv.game.grid.side_size)
             next_value == IF exhausted THEN 0 ELSE e.value + 1
             popped == [sv EXCEPT
                 !.entries_added = Front(sv.entries_added),
                 !.empty_positions =
                     IF exhausted THEN Append(sv.empty_positions, e.position)
                     ELSE sv.empty_positions]
         IN  Then(add_entry(sv.game, e.position, next_value), LAMBDA r :
                 IF r.res # "Ok"
                     THEN [panic |-> TRUE, solver |-> [popped EXCEPT !.game = r.game]]
                     ELSE [panic |-> FALSE,
                           solver |-> [popped EXCEPT
                               !.game = r.game,
                               !.entries_added = Append(Front(sv.entries_added), e)]])

\* a next_retry that moves on by two candidates
next_retry_skips_a_value(sv) ==
    IF sv.entries_added = << >> THEN [panic |-> TRUE, solver |-> sv]
    ELSE LET e == Last(sv.entries_added)
             exhausted == ~(e.value + 1 <= sv.game.grid.side_size)
             next_value == IF exhausted THEN 0 ELSE Min({e.value + 2, sv.game.grid.side_size})
             popped == [sv EXCEPT
                 !.entries_added = Front(sv.entries_added),
                 !.empty_positions =
                     IF exhausted THEN Append(sv.empty_positions, e.position)
                     ELSE sv.empty_positions]
         IN  Then(add_entry(sv.game, e.position, next_value), LAMBDA r :
                 IF r.res # "Ok"
                     THEN [panic |-> TRUE, solver |-> [popped EXCEPT !.game = r.game]]
                     ELSE [panic |-> FALSE,
                           solver |-> [popped EXCEPT
                               !.game = r.game,
                               !.entries_added = Append(Front(sv.entries_added), r.entry)]])

\* the second half of Solver::next: pop the trial entry and place its successor
next_retry(sv) ==
    IF sv.entries_added = << >> THEN [panic |-> TRUE, solver |-> sv]
    ELSE LET e == Last(sv.entries_added)
             exhausted == ~(e.value + 1 <= sv.game.grid.side_size)
             next_value == IF exhausted THEN 0 ELSE e.value + 1
             popped == [sv EXCEPT
                 !.entries_added = Front(sv.entries_added),
                 !.empty_positions =
                     IF exhausted THEN Append(sv.empty_positions, e.position)
                     ELSE sv.empty_positions]
         IN  Then(add_entry(sv.game, e.position, next_value), LAMBDA r :
                 IF r.res # "Ok"
                     THEN [panic |-> TRUE, solver |-> [popped EXCEPT !.game = r.game]]
                     ELSE [panic |-> FALSE,
                           solver |-> [popped EXCEPT
                               !.game = r.game,
                               !.entries_added = Append(Front(sv.entries_added), r.entry)]])

\* a Solver::next without the early return on a correct game
solver_next_always_steps(sv) ==
    IF Len(sv.game.invalid_subsections) = 0
        THEN IF sv.empty_positions = << >> THEN [panic |-> TRUE, solver |-> sv]
             ELSE Then(add_entry(sv.game, Last(sv.empty_positions), 1), LAMBDA r :
                      IF r.res # "Ok"
                          THEN [panic |-> TRUE,
                                solver |-> [sv EXCEPT
                                    !.empty_positions = Front(sv.empty_positions),
                                    !.game = r.game]]
                          ELSE Then([sv EXCEPT
                                        !.empty_positions = Front(sv.empty_positions),
                                        !.game = r.game,
                                        !.entries_added = Append(sv.entries_added, r.entry)],
                                    next_retry))
        ELSE next_retry(sv)

\* Solver::next
solver_next(sv) ==
    IF is_correct(sv.game) THEN [panic |-> FALSE, solver |-> sv]
    ELSE IF Len(sv.game.invalid_subsections) = 0
        THEN IF sv.empty_positions = << >> THEN [panic |-> TRUE, solver |-> sv]
             ELSE Then(add_entry(sv.game, Last(sv.empty_positions), 1), LAMBDA r :
                      IF r.res # "Ok"
                          THEN [panic |-> TRUE,
                                solver |-> [sv EXCEPT
                                    !.empty_positions = Front(sv.empty_positions),
                                    !.game = r.game]]
                          ELSE Then([sv EXCEPT
                                        !.empty_positions = Front(sv.empty_positions),
                                        !.game = r.game,
                                        !.entries_added = Append(sv.entries_added, r.entry)],
                                    next_retry))
        ELSE next_retry(sv)

(***************************************************************************)
(* The state machine.                                                      *)
(***************************************************************************)
\* positions and values the caller tries: (0,0), (3,0) and (4,0) are clues or
\* empty cells depending on the board, (9,0) lies outside a 9x9 grid; 4 is
\* the value the pattern of the 16x16 board has at (0,0), 10 is above the side
\* of a 9x9 grid
ProbePositions == {<<0, 0>>, <<3, 0>>, <<4, 0>>, <<9, 0>>}
ProbeValues == {0, 1, 4, 9, 10}

\* subsections the caller reads; each lies inside every accepted grid
ProbeTypes == {Row(0), Row(3), Column(1), Square(0, 0), Square(1, 1)}

\* what a call returned: entry is the Entry of add_entry / undo_entry, index the
\* i of InvalidCellValue(i), subsection and values the subsection read and the
\* values its iterator yielded, subsections the subsections
\* get_all_subsection_values returned, result the CheckerResult of
\* check_subsection, position and value the arguments of unset_cell, get_cell
\* and set_cell, returned the value get_cell or set_cell returned, pairs the
\* (type, result) pairs check_subsections returned
Ret(op, res) ==
    [op |-> op, res |-> res, entry |-> NoEntry, index |-> 0,
     subsection |-> Row(0), values |-> << >>, subsections |-> << >>,
     result |-> [valid |-> TRUE, complete |-> TRUE], position |-> <<0, 0>>,
     value |-> 0, returned |-> 0, pairs |-> << >>]

TheGrid ==
    [cells |-> cells, readonly |-> readonly, side_size |-> side_size,
     sub_square_size |-> sub_square_size]

TheGame ==
    [grid |-> TheGrid, entries |-> entries, invalid_subsections |-> invalid_subsections,
     is_complete |-> is_complete]

TheSolver ==
    [game |-> TheGame, empty_positions |-> empty_positions, entries_added |-> entries_added]

SetGrid(gr) ==
    /\ cells' = gr.cells
    /\ readonly' = gr.readonly
    /\ side_size' = gr.side_size
    /\ sub_square_size' = gr.sub_square_size

SetGame(gm) ==
    /\ SetGrid(gm.grid)
    /\ entries' = gm.entries
    /\ invalid_subsections' = gm.invalid_subsections
    /\ is_complete' = gm.is_complete

\* the newest cap elements of a Vec.  Solver::next pushes after every pop, so
\* its Vecs only grow while it steps; it reads nothing below the elements kept
Newest(s, cap) == IF Len(s) > cap THEN SubSeq(s, Len(s) - cap + 1, Len(s)) ELSE s

Init ==
    /\ phase = "input"
    /\ input \in Inputs
    /\ cells = << >>
    /\ readonly = << >>
    /\ side_size = 0
    /\ sub_square_size = 0
    /\ entries = << >>
    /\ invalid_subsections = << >>
    /\ is_complete = FALSE
    /\ empty_positions = << >>
    /\ entries_added = << >>
    /\ values = {}
    /\ ret = Ret("none", "none")

\* Grid::new(input)
GridNew ==
    /\ phase = "input"
    /\ \E r \in {GridNewResult(input)} :
       IF r.ok
           THEN /\ SetGrid(r)
                /\ phase' = "grid"
                /\ ret' = Ret("Grid::new", "Ok")
           ELSE /\ UNCHANGED grid_vars
                /\ phase' = "rejected"
                /\ ret' = [Ret("Grid::new", r.err) EXCEPT !.index = r.index]
    /\ UNCHANGED <<input, values, game_vars, solver_vars>>

\* grid.get_subsection_values(t), iterated to the end
GetSubsectionValues(t) ==
    /\ phase = "grid"
    /\ IF SubsectionPanics(side_size, t)
           THEN /\ phase' = "aborted"
                /\ ret' = [Ret("get_subsection_values", "panic") EXCEPT !.subsection = t]
           ELSE /\ phase' = "grid"
                /\ ret' = [Ret("get_subsection_values", "Ok") EXCEPT
                               !.subsection = t,
                               !.values = SubsectionValues(cells, side_size, t)]
    /\ UNCHANGED <<input, values, grid_vars, game_vars, solver_vars>>

\* grid.get_all_subsection_values(): the iterators returned, not yet iterated
GetAllSubsectionValues ==
    /\ phase = "grid"
    /\ phase' = "grid"
    /\ ret' = [Ret("get_all_subsection_values", "Ok") EXCEPT
                   !.subsections = AllSubsectionTypes(side_size, sub_square_size)]
    /\ UNCHANGED <<input, values, grid_vars, game_vars, solver_vars>>

\* Game::from_grid(grid)
GameFromGrid ==
    /\ phase = "grid"
    /\ SetGame(from_grid(TheGrid))
    /\ phase' = "game"
    /\ ret' = Ret("Game::from_grid", "Ok")
    /\ UNCHANGED <<input, values, solver_vars>>

\* Game::new(input): Grid::new(input).unwrap(), then from_grid
GameNew ==
    /\ phase = "input"
    /\ \E r \in {GridNewResult(input)} :
       IF r.ok
           THEN /\ SetGame(from_grid([cells |-> r.cells, readonly |-> r.readonly,
                                      side_size |-> r.side_size,
                                      sub_square_size |-> r.sub_square_size]))
                /\ phase' = "game"
                /\ ret' = Ret("Game::new", "Ok")
           ELSE /\ UNCHANGED <<grid_vars, game_vars>>
                /\ phase' = "aborted"
                /\ ret' = Ret("Game::new", "panic")
    /\ UNCHANGED <<input, values, solver_vars>>

\* game.add_entry(pos, value)
AddEntry(pos, value) ==
    /\ phase = "game"
    /\ Len(entries) < MaxEntries
    /\ \E r \in {add_entry(TheGame, pos, value)} :
       /\ SetGame(r.game)
       /\ phase' = IF r.res = "panic" THEN "aborted" ELSE "game"
       /\ ret' = [Ret("add_entry", r.res) EXCEPT !.entry = r.entry]
    /\ UNCHANGED <<input, values, solver_vars>>

\* game.undo_entry()
UndoEntry ==
    /\ phase = "game"
    /\ \E r \in {undo_entry(TheGame)} :
       /\ SetGame(r.game)
       /\ phase' = IF r.res = "panic" THEN "aborted" ELSE "game"
       /\ ret' = [Ret("undo_entry", r.res) EXCEPT !.entry = r.entry]
    /\ UNCHANGED <<input, values, solver_vars>>

\* game.unset_cell(pos)
UnsetCell(pos) ==
    /\ phase = "game"
    /\ Len(entries) < MaxEntries
    /\ \E r \in {unset_cell(TheGame, pos)} :
       /\ SetGame(r.game)
       /\ phase' = "game"
       /\ ret' = [Ret("unset_cell", r.res) EXCEPT !.position = pos]
    /\ UNCHANGED <<input, values, solver_vars>>

\* game.reset()
Reset ==
    /\ phase = "game"
    /\ \E r \in {game_reset(TheGame)} :
       /\ SetGame(r.game)
       /\ phase' = IF r.res = "panic" THEN "aborted" ELSE "game"
       /\ ret' = Ret("reset", r.res)
    /\ UNCHANGED <<input, values, solver_vars>>

Reverse(q) == [k \in 1..Len(q) |-> q[Len(q) + 1 - k]]

\* a Solver::new whose empty-position stack comes out in either order, as from
\* a collection without a fixed iteration order
SolverNew_any_order ==
    /\ phase = "game"
    /\ \E r \in {solver_new(TheGame)} :
       /\ empty_positions' \in {r.solver.empty_positions, Reverse(r.solver.empty_positions)}
       /\ entries_added' = r.solver.entries_added
       /\ phase' = IF r.panic THEN "aborted" ELSE "solver"
       /\ ret' = Ret("Solver::new", IF r.panic THEN "panic" ELSE "Ok")
    /\ UNCHANGED <<input, values, grid_vars, game_vars>>

\* Solver::new(game)
SolverNew ==
    /\ phase = "game"
    /\ \E r \in {solver_new(TheGame)} :
       /\ empty_positions' = r.solver.empty_positions
       /\ entries_added' = r.solver.entries_added
       /\ phase' = IF r.panic THEN "aborted" ELSE "solver"
       /\ ret' = Ret("Solver::new", IF r.panic THEN "panic" ELSE "Ok")
    /\ UNCHANGED <<input, values, grid_vars, game_vars>>

\* solver.next()
SolverNext ==
    /\ phase = "solver"
    /\ \E r \in {solver_next(TheSolver)} :
       /\ SetGame([r.solver.game EXCEPT !.entries = Newest(r.solver.game.entries, MaxStack)])
       /\ empty_positions' = Newest(r.solver.empty_positions, MaxStack)
       /\ entries_added' = Newest(r.solver.entries_added, MaxStack)
       /\ phase' = IF r.panic THEN "aborted" ELSE "solver"
       /\ ret' = Ret("Solver::next", IF r.panic THEN "panic" ELSE "Ok")
    /\ UNCHANGED <<input, values>>

Next ==
    \/ GridNew
    \/ \E t \in ProbeTypes : GetSubsectionValues(t)
    \/ GetAllSubsectionValues
    \/ GameFromGrid
    \/ GameNew
    \/ \E pos \in ProbePositions, value \in ProbeValues : AddEntry(pos, value)
    \/ UndoEntry
    \/ \E pos \in ProbePositions : UnsetCell(pos)
    \/ Reset
    \/ SolverNew
    \/ SolverNext

Spec == Init /\ [][Next]_vars

(***************************************************************************)
(* The Game alone: a game built by Game::new and the calls a player makes. *)
(***************************************************************************)
\* boards for the Game: one and two writable cells among the positions the
\* caller tries, conflicting clues, the three grid sizes, and a rejected list
GameBoards ==
    {Blanked(SolvedCells, {4}), Blanked(SolvedCells, {4, 3}), ConflictBoard,
     SmallBoard, WideBoard, Zeros(1)}

GameInit ==
    /\ phase = "input"
    /\ input \in GameBoards
    /\ cells = << >>
    /\ readonly = << >>
    /\ side_size = 0
    /\ sub_square_size = 0
    /\ entries = << >>
    /\ invalid_subsections = << >>
    /\ is_complete = FALSE
    /\ empty_positions = << >>
    /\ entries_added = << >>
    /\ values = {}
    /\ ret = Ret("none", "none")

GameNext ==
    \/ GameNew
    \/ \E pos \in ProbePositions, value \in ProbeValues : AddEntry(pos, value)
    \/ UndoEntry
    \/ \E pos \in ProbePositions : UnsetCell(pos)
    \/ Reset

GameSpec == GameInit /\ [][GameNext]_vars

(***************************************************************************)
(* The Grid alone: a grid built by Grid::new, read and written cell by     *)
(* cell.                                                                   *)
(***************************************************************************)
\* lists of a length Grid::new refuses, every value of which is 9
BadSizeBoards == {[i \in 1..n |-> 9] : n \in BadLengths \ {0}}

\* a 9x9 board with (4,0), (2,1) and (1,2) writable, the 4x4 board, the
\* empty list, which Grid::new accepts as a grid of side 0, and the lists it
\* refuses for a value or for their length
GridBoards ==
    {Blanked(SolvedCells, {4, 11, 19}), SmallBoard, Zeros(0)}
        \cup BadValueBoards \cup BadSizeBoards

\* positions off the diagonal in both orders, and one outside a 9x9 grid in
\* either coordinate
GridPositions == {<<0, 0>>, <<4, 0>>, <<2, 1>>, <<1, 2>>, <<9, 0>>, <<0, 9>>}
GridValues == {0, 1, 9, 10}

GridInit ==
    /\ phase = "input"
    /\ input \in GridBoards
    /\ cells = << >>
    /\ readonly = << >>
    /\ side_size = 0
    /\ sub_square_size = 0
    /\ entries = << >>
    /\ invalid_subsections = << >>
    /\ is_complete = FALSE
    /\ empty_positions = << >>
    /\ entries_added = << >>
    /\ values = {}
    /\ ret = Ret("none", "none")

\* grid.get_cell(pos)
GetCell(pos) ==
    /\ phase = "grid"
    /\ phase' = "grid"
    /\ \E r \in {get_cell(cells, side_size, pos)} :
           ret' = [Ret("get_cell", IF r = << >> THEN "CellOutOfBounds" ELSE "Ok") EXCEPT
                      !.position = pos,
                      !.returned = IF r = << >> THEN 0 ELSE r[1]]
    /\ UNCHANGED <<input, values, grid_vars, game_vars, solver_vars>>

\* grid.set_cell(pos, value)
SetCell(pos, value) ==
    /\ phase = "grid"
    /\ phase' = "grid"
    /\ \E r \in {set_cell(cells, readonly, side_size, pos, value)} :
       /\ cells' = r.cells
       /\ ret' = [Ret("set_cell", r.res) EXCEPT
                      !.position = pos, !.value = value, !.returned = r.prev]
    /\ UNCHANGED <<input, values, readonly, side_size, sub_square_size, game_vars, solver_vars>>

GridNext ==
    \/ GridNew
    \/ \E pos \in GridPositions : GetCell(pos)
    \/ \E pos \in GridPositions, value \in GridValues : SetCell(pos, value)

GridSpec == GridInit /\ [][GridNext]_vars

(***************************************************************************)
(* Checker::check_subsection on the subsections of a grid, over boards     *)
(* whose row 0 runs through the patterns of zeros and repeats.             *)
(***************************************************************************)
CheckerInit ==
    /\ phase = "input"
    /\ input \in RowBoards
    /\ cells = << >>
    /\ readonly = << >>
    /\ side_size = 0
    /\ sub_square_size = 0
    /\ entries = << >>
    /\ invalid_subsections = << >>
    /\ is_complete = FALSE
    /\ empty_positions = << >>
    /\ entries_added = << >>
    /\ values = {}
    /\ ret = Ret("none", "none")

\* checker.check_subsection(&grid.get_subsection_values(t))
CheckSubsection(t) ==
    /\ phase = "grid"
    /\ ~SubsectionPanics(side_size, t)
    /\ phase' = "grid"
    /\ \E vals \in {SubsectionValues(cells, side_size, t)} :
       \E r \in {check_subsection_on(values, vals)} :
           /\ values' = r.values
           /\ ret' = [Ret("check_subsection", "Ok") EXCEPT
                          !.subsection = t,
                          !.values = vals,
                          !.result = r.result]
    /\ UNCHANGED <<input, grid_vars, game_vars, solver_vars>>

\* lists of subsections handed to check_subsections: a row before and after
\* a column that shares its first cell, a subsection twice, and no subsection
ProbeLists ==
    {<< >>, <<Row(0)>>, <<Row(0), Column(0)>>, <<Column(0), Row(0)>>,
     <<Row(1), Row(0), Row(0)>>}

\* checker.check_subsections(&[grid.get_subsection_values(t), ...])
CheckSubsections(ts) ==
    /\ phase = "grid"
    /\ \A k \in 1..Len(ts) : ~SubsectionPanics(side_size, ts[k])
    /\ phase' = "grid"
    /\ \E r \in {check_subsections_on(values, ts, cells, side_size, 1)} :
           /\ values' = r.values
           /\ ret' = [Ret("check_subsections", "Ok") EXCEPT
                          !.subsections = ts,
                          !.pairs = r.pairs]
    /\ UNCHANGED <<input, grid_vars, game_vars, solver_vars>>

CheckerNext ==
    \/ GridNew
    \/ \E t \in {Row(0), Column(0)} : CheckSubsection(t)
    \/ \E ts \in ProbeLists : CheckSubsections(ts)

CheckerSpec == CheckerInit /\ [][CheckerNext]_vars

(***************************************************************************)
(* Solver::solve(Game::new(input)): the solver run on a fresh game, and    *)
(* the same with the driver's loop calling next() again and again.         *)
(***************************************************************************)
SolveNext ==
    \/ GameNew
    \/ SolverNew
    \/ SolverNext

SolveSpec == Init /\ [][SolveNext]_vars

\* a 16x16 board with empty cells beyond the ninth column: (9,0) and (12,1)
WideGaps == Blanked(WideBoard, {9, 28})

\* a 16x16 board without a repeat in any row, column or 4x4 box (each row is
\* the row above shifted), with (0,0) and (9,0) emptied
WideShifted ==
    [i \in 1..256 |->
        IF i \in {1, 10} THEN 0
        ELSE LET x == (i - 1) % 16
                 y == (i - 1) \div 16
             IN  ((x + 4 * (y % 4) + (y \div 4)) % 16) + 1]

\* boards for the solver alone: the board of the test, the board that needs
\* a retry, and boards of each other size
SeedBoards == {DummyCells, BacktrackBoard, SmallBoard, WideGaps, WideShifted}

SeedInit ==
    /\ phase = "input"
    /\ input \in SeedBoards
    /\ cells = << >>
    /\ readonly = << >>
    /\ side_size = 0
    /\ sub_square_size = 0
    /\ entries = << >>
    /\ invalid_subsections = << >>
    /\ is_complete = FALSE
    /\ empty_positions = << >>
    /\ entries_added = << >>
    /\ values = {}
    /\ ret = Ret("none", "none")

SeedSpec == SeedInit /\ [][SolveNext]_vars

\* game.is_correct(), on a game or on the game of a solver as in the loop of
\* Solver::solve
IsCorrect ==
    /\ phase \in {"game", "solver"}
    /\ ret' = Ret("is_correct", IF is_correct(TheGame) THEN "true" ELSE "false")
    /\ UNCHANGED <<phase, input, values, grid_vars, game_vars, solver_vars>>

\* the loop of Solver::solve with its test spelled out
LoopNext ==
    \/ GameNew
    \/ SolverNew
    \/ IsCorrect
    \/ SolverNext

LoopSpec == Init /\ [][LoopNext]_vars

LiveSpec == Init /\ [][SolveNext]_vars /\ WF_vars(SolverNext)

(***************************************************************************)
(* What the rules of the puzzle say about a board, read off the cells as   *)
(* a side x side square with box x box blocks.                             *)
(***************************************************************************)
CellAt(cs, side, x, y) == cs[y * side + x + 1]

\* the coordinates of the rows, columns and boxes
RuleGroups(side, box) ==
    {{<<x, y>> : x \in 0..(side - 1)} : y \in 0..(side - 1)}
        \cup {{<<x, y>> : y \in 0..(side - 1)} : x \in 0..(side - 1)}
        \cup {{<<bx * box + dx, by * box + dy>> : dx \in 0..(box - 1), dy \in 0..(box - 1)} :
                 bx \in 0..(box - 1), by \in 0..(box - 1)}

NoRepeat(cs, side, group) ==
    \A p \in group, q \in group :
        (p # q /\ CellAt(cs, side, p[1], p[2]) # 0)
            => CellAt(cs, side, p[1], p[2]) # CellAt(cs, side, q[1], q[2])

NoZero(cs) == \A i \in 1..Len(cs) : cs[i] # 0

ReallySolved(cs, side, box) ==
    /\ NoZero(cs)
    /\ \A group \in RuleGroups(side, box) : NoRepeat(cs, side, group)

CluesKept == \A i \in 1..Len(input) : input[i] # 0 => cells[i] = input[i]

\* a board known to have a valid completion: it agrees with the solved 9x9 board
HasCompletion(b) ==
    /\ Len(b) = Len(SolvedCells)
    /\ \A i \in 1..Len(b) : b[i] # 0 => b[i] = SolvedCells[i]
    /\ ReallySolved(SolvedCells, 9, 3)

Solving == phase = "solver"
Solved == phase = "solver" /\ is_correct(TheGame)

(***************************************************************************)
(* Claims.                                                                 *)
(***************************************************************************)
HasEmpty(b) == \E i \in 1..Len(b) : b[i] = 0

\* C1: a fresh game on a board that has a valid completion (and a cell left
\* to fill), stepped with Solver::next again and again as Solver::solve does,
\* eventually is_correct().
C1_SolvableIsSolved == (Solving /\ HasCompletion(input) /\ HasEmpty(input)) ~> Solved

\* C2: when solve returns (the solver's game is_correct), is_complete holds,
\* invalid_subsections is empty, the grid has no zero and no repeated value in
\* any row, column or box, and every clue holds its input value.
C2_SolvedIsSolved ==
    Solved =>
        /\ is_complete
        /\ invalid_subsections = << >>
        /\ ReallySolved(cells, side_size, sub_square_size)
        /\ CluesKept

\* C3: stepping the solver on the 9x9 board of the test reaches is_correct(),
\* and the grid is then exactly the solved board listed.
C3_DummySolved ==
    /\ [](input = DummyCells /\ Solved => cells = SolvedCells)
    /\ (input = DummyCells /\ Solving) ~> Solved

C3_Witness == input = DummyCells /\ Solved /\ cells = SolvedCells /\ Len(entries_added) = 13

\* the subsections the Checker reports invalid on the current grid
CheckerInvalid ==
    LET pairs == CheckerResults(TheGrid)
    IN  {pairs[k][1] : k \in {j \in 1..Len(pairs) : ~pairs[j][2].valid}}

\* the Checker reports every subsection of the current grid complete
CheckerComplete == AllComplete(CheckerResults(TheGrid))

\* C4: in every Game state (side at least 4, and a grid the Checker can read
\* to the end), the cached invalid_subsections are exactly the subsections the
\* Checker reports invalid and the cached is_complete is what the Checker
\* reports.
C4_CacheMatchesChecker ==
    (phase = "game" /\ side_size >= 4 /\ ~ApplyCheckerPanics(TheGrid)) =>
        /\ {invalid_subsections[k] : k \in 1..Len(invalid_subsections)} = CheckerInvalid
        /\ is_complete = CheckerComplete

\* C5: when add_entry(p, v) has succeeded, an undo_entry() called right after
\* it returns the same Entry and leaves the cell at p, invalid_subsections and
\* is_complete as they were before the add_entry.
C5_UndoRestores ==
    [][(ret'.op = "add_entry" /\ ret'.res = "Ok") =>
          LET u == undo_entry(TheGame')
              p == ret'.entry.position
          IN  /\ u.res = "Some"
              /\ u.entry = ret'.entry
              /\ get_cell(u.game.grid.cells, side_size, p) = get_cell(cells, side_size, p)
              /\ u.game.invalid_subsections = invalid_subsections
              /\ u.game.is_complete = is_complete]_vars

\* C6: once the grid is built, every cell that was nonzero in the input holds
\* its input value, whatever add_entry, undo_entry, unset_cell, reset and
\* Solver::next calls were made.
C6_CluesNeverChange == (Len(cells) = Len(input)) => CluesKept

\* after an entry was placed, an add_entry aimed at the clue at (0,0) was
\* refused and the clue is still there
C6_Witness ==
    /\ input = DummyCells
    /\ ret.op = "add_entry" /\ ret.res = "ReadonlyCellMutation"
    /\ entries # << >>
    /\ cells[1] = 4

\* C7: while the program runs, every cell value lies in 0..side_size.
C7_CellsInRange ==
    phase \in {"grid", "game", "solver"} => \A i \in 1..Len(cells) : cells[i] \in 0..side_size

GridGameOps ==
    {"Grid::new", "get_subsection_values", "Game::from_grid", "Game::new",
     "add_entry", "undo_entry", "unset_cell", "reset"}

\* C8: no Grid or Game operation aborts the process: each returns normally
\* or with one of the four errors.
C8_NeverAborts == ret.op \in GridGameOps => ret.res # "panic"

\* len = N * N for a side N in {4, 9, 16, ...}, itself a square
GoodLength(len) ==
    \E N \in 4..len : N * N = len /\ \E k \in 2..N : k * k = N

\* side of a board of good length
SideOf(len) == CHOOSE N \in 4..len : N * N = len

\* C9: Grid::new returns Ok exactly when the length is N * N for a side N in
\* {4, 9, 16, ...} and every value is at most N; any other length, 0 included,
\* gives InvalidGridSize.
C9_GridNewAccepts ==
    ret.op = "Grid::new" =>
        /\ ret.res = "Ok" <=>
               /\ GoodLength(Len(input))
               /\ \A i \in 1..Len(input) : input[i] <= SideOf(Len(input))
        /\ ~GoodLength(Len(input)) => ret.res = "InvalidGridSize"

\* the cells a subsection names: Row(j) is (0..N-1, j), Column(i) is
\* (i, 0..N-1), Square(bx, by) the box x box block at (bx * box, by * box)
ExpectedPositions(t, side, box) ==
    [k \in 1..side |->
        IF t[1] = "Row" THEN <<k - 1, t[2]>>
        ELSE IF t[1] = "Column" THEN <<t[2], k - 1>>
        ELSE <<t[2] * box + ((k - 1) % box), t[3] * box + ((k - 1) \div box)>>]

ExpectedValues(cs, side, box, t) ==
    [k \in 1..side |->
        CellAt(cs, side, ExpectedPositions(t, side, box)[k][1],
                         ExpectedPositions(t, side, box)[k][2])]

\* C10: on a grid of side N >= 4, get_subsection_values(t) yields the N
\* values of the cells the subsection t names, in order.
C10_SubsectionValues ==
    (ret.op = "get_subsection_values" /\ side_size >= 4) =>
        /\ ret.res = "Ok"
        /\ ret.values = ExpectedValues(cells, side_size, sub_square_size, ret.subsection)

\* how often the subsection t occurs in the sequence ts
Occurrences(ts, t) == Cardinality({k \in 1..Len(ts) : ts[k] = t})

\* C11: get_all_subsection_values returns 3 * side_size subsections, the
\* triple Row(i), Column(i), Square(i mod box, i div box) for i = 0, 1, ... in
\* that order, and every row, every column and every box occurs exactly once.
C11_AllSubsections ==
    ret.op = "get_all_subsection_values" =>
        /\ Len(ret.subsections) = 3 * side_size
        /\ \A i \in 0..(side_size - 1) :
               /\ ret.subsections[3 * i + 1] = Row(i)
               /\ ret.subsections[3 * i + 2] = Column(i)
               /\ ret.subsections[3 * i + 3] =
                      Square(i % sub_square_size, i \div sub_square_size)
        /\ \A i \in 0..(side_size - 1) :
               /\ Occurrences(ret.subsections, Row(i)) = 1
               /\ Occurrences(ret.subsections, Column(i)) = 1
        /\ \A bx \in 0..(sub_square_size - 1), by \in 0..(sub_square_size - 1) :
               Occurrences(ret.subsections, Square(bx, by)) = 1

\* the 27 subsections of a 9x9 grid were returned, the centre box among them
C11_Witness ==
    /\ ret.op = "get_all_subsection_values"
    /\ side_size = 9
    /\ Len(ret.subsections) = 27
    /\ ret.subsections[15] = Square(1, 1)

\* some nonzero value occurs twice in vals
HasRepeat(vals) ==
    \E j \in 1..Len(vals), k \in 1..Len(vals) : j # k /\ vals[j] # 0 /\ vals[j] = vals[k]

\* some zero occurs in vals
HasZero(vals) == \E k \in 1..Len(vals) : vals[k] = 0

\* C12: check_subsection returns valid exactly when no nonzero value occurs
\* twice in the sequence and complete exactly when no zero occurs in it,
\* wherever the zero and the repeat lie.
C12_CheckSubsection ==
    ret.op = "check_subsection" =>
        /\ ret.result.valid = ~HasRepeat(ret.values)
        /\ ret.result.complete = ~HasZero(ret.values)

\* a row whose only zero comes after its first duplicate was checked
C12_Witness ==
    /\ ret.op = "check_subsection"
    /\ ret.values = <<1, 1, 2, 0, 3, 4, 5, 6, 7>>
    /\ ret.result = [valid |-> FALSE, complete |-> FALSE]

InRange == \A i \in 1..Len(cells) : cells[i] \in 0..side_size

\* C13: in a Game state that add_entry, undo_entry (of an entry) or reset has
\* just produced, with every cell value in 0..side_size, is_correct() is true
\* exactly when the grid has no zero and no value twice in a row, a column or
\* a box.
C13_CorrectIffSolved ==
    (/\ phase = "game"
     /\ ret.op \in {"add_entry", "undo_entry", "reset"}
     /\ ret.res \in {"Ok", "Some"}
     /\ InRange) =>
        (is_correct(TheGame) <=> ReallySolved(cells, side_size, sub_square_size))

\* C14: a Solver::next called while game.is_correct() holds returns normally
\* and changes neither the grid, the history, the cache nor the two stacks.
C14_CorrectIsFinal ==
    (phase = "solver" /\ is_correct(TheGame)) =>
        solver_next(TheSolver) = [panic |-> FALSE, solver |-> TheSolver]

\* next() was called on a solver built from a game that add_entry had already
\* made correct: the solver has placed nothing
C14_Witness ==
    /\ Solved
    /\ ret.op = "Solver::next"
    /\ entries_added = << >>
    /\ entries # << >>

\* C15: a Solver::next call (on a grid of side at least 4) aborts exactly
\* when it is made with invalid_subsections non-empty and the trial stack
\* empty; from every other solver state it returns normally.
C15_AbortsOnlyWhenFatal ==
    [][(phase = "solver" /\ side_size >= 4) =>
          ((phase' = "aborted") <=> (invalid_subsections # << >> /\ entries_added = << >>))]_vars

\* a 9x9 board whose clues repeat a value in a row, a column or a box: it has
\* no valid completion
CluesConflict(b) ==
    /\ Len(b) = 81
    /\ \E group \in RuleGroups(9, 3) : ~NoRepeat(b, 9, group)

\* C16: on a board that has no valid completion, stepping the solver with
\* Solver::next again and again eventually reaches the fatal condition and
\* the process stops.
C16_UnsolvableStops == (Solving /\ CluesConflict(input)) ~> (phase = "aborted")

\* the solver's state: grid, history, cache and the two stacks
SolverState == <<cells, readonly, side_size, sub_square_size, entries,
                 invalid_subsections, is_complete, empty_positions, entries_added>>

\* the one state Solver::new builds from the current game
AfterNew ==
    LET sv == solver_new(TheGame).solver
    IN  <<cells, readonly, side_size, sub_square_size, entries,
          invalid_subsections, is_complete, sv.empty_positions, sv.entries_added>>

\* the one state a Solver::next call leaves from the current state
AfterNext ==
    LET sv == solver_next(TheSolver).solver
    IN  <<sv.game.grid.cells, sv.game.grid.readonly, sv.game.grid.side_size,
          sv.game.grid.sub_square_size, Newest(sv.game.entries, MaxStack),
          sv.game.invalid_subsections, sv.game.is_complete,
          Newest(sv.empty_positions, MaxStack), Newest(sv.entries_added, MaxStack)>>

C18_AddEntryEffect ==
    [][(ret'.op = "add_entry" /\ ret'.res = "Ok") =>
          LET e == ret'.entry
              i == get_cell_index(side_size, e.position)[1] + 1
          IN  /\ e.previous_value = cells[i]
              /\ cells'[i] = e.value
              /\ \A j \in 1..Len(cells) : j # i => cells'[j] = cells[j]
              /\ Len(cells') = Len(cells)
              /\ entries' = Append(entries, e)
              /\ Then(Then(TheGrid', CheckerResults), LAMBDA pairs :
                     /\ invalid_subsections' = TypeOf(SelectSeq(pairs, IsInvalid))
                     /\ is_complete' = AllComplete(pairs))]_vars

\* a second add_entry overwrote an entry that had made the board invalid, and
\* the cache holds nothing of it
C18_Witness ==
    /\ input = Blanked(SolvedCells, {4})
    /\ ret.op = "add_entry" /\ ret.res = "Ok"
    /\ Len(entries) = 2
    /\ entries[1] = [position |-> <<4, 0>>, value |-> 1, previous_value |-> 0]
    /\ entries[2] = [position |-> <<4, 0>>, value |-> 9, previous_value |-> 1]
    /\ invalid_subsections = << >>
    /\ is_complete

\* C19: an add_entry that fails with CellOutOfBounds or ReadonlyCellMutation
\* leaves the grid, the history and the cache as they were.
C19_FailedAddEntry ==
    [][(ret'.op = "add_entry" /\ ret'.res \in {"CellOutOfBounds", "ReadonlyCellMutation"}) =>
          UNCHANGED <<grid_vars, game_vars>>]_vars

\* with an entry in the history, an add_entry outside the grid was refused
C19_Witness ==
    /\ ret.op = "add_entry" /\ ret.res = "CellOutOfBounds"
    /\ side_size = 9
    /\ Len(entries) = 1
    /\ invalid_subsections # << >>

\* C20: undo_entry() on an empty history returns none and changes nothing;
\* otherwise it returns and removes the most recent Entry, writes that
\* Entry's previous_value at its position, leaves every other cell as it was
\* and leaves the cache equal to the Checker's result on the new grid.
C20_UndoEntryEffect ==
    [][ret'.op = "undo_entry" =>
          IF entries = << >>
              THEN /\ ret'.res = "None"
                   /\ UNCHANGED <<grid_vars, game_vars>>
              ELSE LET e == Last(entries)
                       i == get_cell_index(side_size, e.position)[1] + 1
                   IN  /\ ret'.res = "Some"
                       /\ ret'.entry = e
                       /\ entries' = Front(entries)
                       /\ cells'[i] = e.previous_value
                       /\ \A j \in 1..Len(cells) : j # i => cells'[j] = cells[j]
                       /\ Len(cells') = Len(cells)
                       /\ Then(Then(TheGrid', CheckerResults), LAMBDA pairs :
                              /\ invalid_subsections' = TypeOf(SelectSeq(pairs, IsInvalid))
                              /\ is_complete' = AllComplete(pairs))]_vars

\* the second of two entries was undone and the cell holds the first again
C20_Witness ==
    /\ ret.op = "undo_entry" /\ ret.res = "Some"
    /\ ret.entry.previous_value # 0
    /\ Len(entries) = 1
    /\ entries[1].position = ret.entry.position
    /\ get_cell(cells, side_size, ret.entry.position) = << ret.entry.previous_value >>

\* C21: unset_cell(p) on a writable cell inside the grid returns Ok, leaves 0
\* in the cell and every other cell as it was, pushes the one Entry
\* (p, 0, previous value) when the cell held a nonzero value and nothing when
\* it was empty, and leaves invalid_subsections and is_complete as they were;
\* an unset_cell that fails with CellOutOfBounds or ReadonlyCellMutation
\* changes nothing.
C21_UnsetCellEffect ==
    [][ret'.op = "unset_cell" =>
          LET p == ret'.position
              idx == get_cell_index(side_size, p)
          IN  /\ (idx # << >> /\ ~readonly[idx[1] + 1]) =>
                     /\ ret'.res = "Ok"
                     /\ cells' = [cells EXCEPT ![idx[1] + 1] = 0]
                     /\ entries' =
                            IF cells[idx[1] + 1] # 0
                                THEN Append(entries,
                                         [position |-> p, value |-> 0,
                                          previous_value |-> cells[idx[1] + 1]])
                                ELSE entries
                     /\ UNCHANGED <<readonly, side_size, sub_square_size,
                                    invalid_subsections, is_complete>>
              /\ ret'.res \in {"CellOutOfBounds", "ReadonlyCellMutation"} =>
                     UNCHANGED <<grid_vars, game_vars>>
              /\ ret'.res \in {"Ok", "CellOutOfBounds", "ReadonlyCellMutation"}]_vars

\* an entry that had made row 0 invalid was unset: the history holds the Entry
\* of the unset and the cache still reports the row
C21_Witness ==
    /\ ret.op = "unset_cell" /\ ret.res = "Ok"
    /\ Len(entries) = 2
    /\ entries[2] = [position |-> ret.position, value |-> 0, previous_value |-> 1]
    /\ get_cell(cells, side_size, ret.position) = <<0>>
    /\ invalid_subsections # << >>

\* the grid Grid::new builds from the input: the clues and nothing else
ClueGrid ==
    [cells |-> input, readonly |-> [i \in 1..Len(input) |-> input[i] # 0],
     side_size |-> side_size, sub_square_size |-> sub_square_size]

\* C22: reset() returns, and after it every non-readonly cell is 0, every
\* readonly cell holds its clue, the history is empty (an undo_entry called
\* next returns none), and invalid_subsections and is_complete are the
\* Checker's result on the grid of the clues alone.
C22_ResetEffect ==
    ret.op = "reset" =>
        /\ ret.res = "Ok"
        /\ \A i \in 1..Len(cells) :
               cells[i] = IF readonly[i] THEN input[i] ELSE 0
        /\ entries = << >>
        /\ undo_entry(TheGame).res = "None"
        /\ Then(CheckerResults(ClueGrid), LAMBDA pairs :
               /\ invalid_subsections = TypeOf(SelectSeq(pairs, IsInvalid))
               /\ is_complete = AllComplete(pairs))

\* the position lies outside a grid of the current side
OutOfBounds(p) == p[1] >= side_size \/ p[2] >= side_size

\* where the cell (x, y) lies in cells: row after row
RowMajor(p) == p[2] * side_size + p[1] + 1

\* C23: set_cell(pos, v) returns CellOutOfBounds when pos.x or pos.y is at
\* least side_size and ReadonlyCellMutation when the cell is a clue, and the
\* grid is unchanged in both cases; otherwise it returns the value stored at
\* pos, leaves v there and every other cell as it was.  get_cell returns
\* CellOutOfBounds under the same condition and the stored value otherwise,
\* the cell (x, y) being the one at index y * side_size + x.
C23_SetCellGetCell ==
    [][/\ ret'.op = "set_cell" =>
              LET p == ret'.position IN
              IF OutOfBounds(p)
                  THEN ret'.res = "CellOutOfBounds" /\ UNCHANGED grid_vars
              ELSE IF input[RowMajor(p)] # 0
                  THEN ret'.res = "ReadonlyCellMutation" /\ UNCHANGED grid_vars
              ELSE /\ ret'.res = "Ok"
                   /\ ret'.returned = cells[RowMajor(p)]
                   /\ cells' = [cells EXCEPT ![RowMajor(p)] = ret'.value]
                   /\ UNCHANGED <<readonly, side_size, sub_square_size>>
       /\ ret'.op = "get_cell" =>
              LET p == ret'.position IN
              /\ UNCHANGED grid_vars
              /\ IF OutOfBounds(p)
                     THEN ret'.res = "CellOutOfBounds"
                     ELSE ret'.res = "Ok" /\ ret'.returned = cells[RowMajor(p)]]_vars

\* the cell (1, 2) of a 9x9 grid, written before, was read back: the value
\* lies at index 2 * 9 + 1 while the cell (2, 1) still holds another value
C23_Witness ==
    /\ ret.op = "get_cell" /\ ret.res = "Ok"
    /\ ret.position = <<1, 2>>
    /\ side_size = 9
    /\ ret.returned = 9
    /\ cells[20] = 9
    /\ cells[12] = 1

\* C24: is_correct() returns true exactly when is_complete holds and
\* invalid_subsections is empty, and it reads only: the grid, the history,
\* the cache and the solver's stacks are after the call what they were before
\* it, so a call repeated returns the same again.
C24_IsCorrectPure ==
    [][ret'.op = "is_correct" =>
          /\ ret'.res = IF is_complete /\ invalid_subsections = << >> THEN "true" ELSE "false"
          /\ UNCHANGED <<phase, grid_vars, game_vars, solver_vars>>]_vars

\* is_correct() returned false on a full board that has an invalid subsection
C24_Witness ==
    /\ ret.op = "is_correct" /\ ret.res = "false"
    /\ is_complete
    /\ invalid_subsections # << >>

\* every position of a side x side board, rows top to bottom and each row
\* left to right
RowMajorScan(side) == [k \in 1..(side * side) |-> <<(k - 1) % side, (k - 1) \div side>>]

\* the positions of the zero cells of the board b, in row-major scan order
ZeroPositions(b, side) ==
    LET IsZero(p) == b[p[2] * side + p[1] + 1] = 0
    IN  SelectSeq(RowMajorScan(side), IsZero)

\* C25: the empty-position stack Solver::new returns with holds exactly the
\* positions of the zero cells of the initial board, each once, in row-major
\* scan order from the bottom of the stack up, so that the position popped
\* first is the last empty cell of the scan; the trial stack is empty.
C25_SeedOrder ==
    (ret.op = "Solver::new" /\ ret.res = "Ok") =>
        /\ empty_positions = ZeroPositions(input, side_size)
        /\ entries_added = << >>

\* C26: a Solver::next called with the game not correct, invalid_subsections
\* empty and a position p on top of the empty-position stack pops p and
\* nothing else, and when it returns the cell at p holds 1, every other cell
\* is as it was, and the trial stack is one entry longer with the Entry
\* (p, value 1) on top.
C26_ForwardStep ==
    [][(/\ phase = "solver"
        /\ ~is_correct(TheGame)
        /\ invalid_subsections = << >>
        /\ empty_positions # << >>
        /\ Len(entries_added) < MaxStack) =>
          LET p == Last(empty_positions) IN
          /\ phase' = "solver"
          /\ empty_positions' = Front(empty_positions)
          /\ cells' = [cells EXCEPT ![RowMajor(p)] = 1]
          /\ Len(entries_added') = Len(entries_added) + 1
          /\ Front(entries_added') = entries_added
          /\ Last(entries_added').position = p
          /\ Last(entries_added').value = 1]_vars

\* C27: a Solver::next called with invalid_subsections non-empty and the
\* Entry (p, v) on top of the trial stack, v + 1 <= side_size, returns with
\* v + 1 in the cell at p and every other cell as it was, the Entry
\* (p, v + 1) on top of the trial stack, the trial stack below it and its
\* length as they were, and the empty-position stack as it was.
C27_SiblingRetry ==
    [][(/\ phase = "solver"
        /\ invalid_subsections # << >>
        /\ entries_added # << >>
        /\ Last(entries_added).value + 1 <= side_size) =>
          LET e == Last(entries_added) IN
          /\ phase' = "solver"
          /\ cells' = [cells EXCEPT ![RowMajor(e.position)] = e.value + 1]
          /\ Len(entries_added') = Len(entries_added)
          /\ Front(entries_added') = Front(entries_added)
          /\ Last(entries_added').position = e.position
          /\ Last(entries_added').value = e.value + 1
          /\ empty_positions' = empty_positions]_vars

\* the retries at (4,0) went from 2 up to 9, which solved the board
C27_Witness ==
    /\ input = Blanked(SolvedCells, {4})
    /\ Solved
    /\ ret.op = "Solver::next"
    /\ entries_added = << [position |-> <<4, 0>>, value |-> 9, previous_value |-> 8] >>
    /\ empty_positions = << >>
    /\ Len(entries) = 9

\* C28: a Solver::next called with invalid_subsections non-empty and the
\* Entry (p, side_size) on top of the trial stack returns with 0 in the cell
\* at p, p on top of the empty-position stack, and the trial stack one entry
\* shorter: what lay below the Entry of p and nothing else.
C28_ExhaustionStep ==
    [][(/\ phase = "solver"
        /\ invalid_subsections # << >>
        /\ entries_added # << >>
        /\ Last(entries_added).value = side_size) =>
          LET e == Last(entries_added) IN
          /\ phase' = "solver"
          /\ cells' = [cells EXCEPT ![RowMajor(e.position)] = 0]
          /\ Last(empty_positions') = e.position
          /\ Len(entries_added') = Len(entries_added) - 1
          /\ entries_added' = Front(entries_added)]_vars

\* an exhaustion step at the position of the top trial Entry has just
\* returned (only that step leaves an Entry of value 0 on the trial stack),
\* and the Entry of another position lies directly below
JustExhausted ==
    /\ phase = "solver"
    /\ Len(entries_added) >= 2
    /\ Last(entries_added).value = 0
    /\ entries_added[Len(entries_added) - 1].position # Last(entries_added).position

\* C29: the Solver::next call that follows an exhaustion step at p changes
\* the cell of the trial Entry that lay directly below the Entry of p (to
\* its next candidate, or to 0), and leaves the cell at p empty.
C29_Backtracks ==
    [][JustExhausted =>
          LET p == Last(entries_added).position
              parent == entries_added[Len(entries_added) - 1].position
          IN  /\ cells'[RowMajor(parent)] # cells[RowMajor(parent)]
              /\ cells'[RowMajor(p)] = 0]_vars

\* the non-clue cells that hold a nonzero value
FilledCells == {i \in 1..Len(cells) : input[i] = 0 /\ cells[i] # 0}

\* C30: in every solver state the trial stack holds at most one Entry for a
\* position, the value of every Entry on it lies in 1..side_size, and the
\* stack is as long as there are non-clue cells holding a nonzero value.
C30_TrialStackShape ==
    phase = "solver" =>
        /\ \A j \in 1..Len(entries_added), k \in 1..Len(entries_added) :
               j # k => entries_added[j].position # entries_added[k].position
        /\ \A k \in 1..Len(entries_added) : entries_added[k].value \in 1..side_size
        /\ Len(entries_added) = Cardinality(FilledCells)

C32_CheckSubsections ==
    ret.op = "check_subsections" =>
        /\ Len(ret.pairs) = Len(ret.subsections)
        /\ \A k \in 1..Len(ret.subsections) :
               LET vals == SubsectionValues(cells, side_size, ret.subsections[k])
               IN  /\ ret.pairs[k][1] = ret.subsections[k]
                   /\ ret.pairs[k][2].valid = ~HasRepeat(vals)
                   /\ ret.pairs[k][2].complete = ~HasZero(vals)

\* a full row 0 that repeats 1 and 2 was checked after the empty row 1 and
\* once more after itself: it is complete both times, though the Checker had
\* seen the 0 of row 1, and row 1 is valid
C32_Witness ==
    /\ ret.op = "check_subsections"
    /\ ret.subsections = <<Row(1), Row(0), Row(0)>>
    /\ SubsectionValues(cells, side_size, Row(0)) = <<1, 2, 1, 2, 3, 4, 5, 6, 7>>
    /\ ret.pairs[1][2] = [valid |-> TRUE, complete |-> FALSE]
    /\ ret.pairs[2][2] = [valid |-> FALSE, complete |-> TRUE]
    /\ ret.pairs[3][2] = [valid |-> FALSE, complete |-> TRUE]
    /\ values = 1..7

\* the clues of the input repeat a value in a row, a column or a box
ClueRepeats ==
    \E group \in RuleGroups(side_size, sub_square_size) : ~NoRepeat(input, side_size, group)

\* the positions of the non-clue cells that hold 0
OpenCells ==
    {p \in (0..(side_size - 1)) \X (0..(side_size - 1)) :
        input[RowMajor(p)] = 0 /\ cells[RowMajor(p)] = 0}

\* C33: on a board whose clues do not conflict, after every Solver::next
\* call the positions on the empty-position stack are exactly the non-clue
\* cells that hold 0, and none of them is on the stack twice.
C33_EmptyStackMatchesBoard ==
    (phase = "solver" /\ ret.op = "Solver::next" /\ ~ClueRepeats) =>
        /\ {empty_positions[k] : k \in 1..Len(empty_positions)} = OpenCells
        /\ \A j \in 1..Len(empty_positions), k \in 1..Len(empty_positions) :
               j # k => empty_positions[j] # empty_positions[k]

\* C34: when a Solver::next called on a game that is not correct returns,
\* the trial stack is non-empty, the cell at the position of its top Entry
\* holds the value of that Entry and is not a clue, and invalid_subsections
\* and is_complete are the Checker's result on the grid as it is now.
C34_TopEntryMatchesBoard ==
    [][(phase = "solver" /\ ~is_correct(TheGame) /\ phase' = "solver") =>
          /\ entries_added' # << >>
          /\ LET e == Last(entries_added')
                  i == e.position[2] * side_size + e.position[1] + 1
              IN  /\ cells'[i] = e.value
                  /\ input[i] = 0
          /\ Then(Then(TheGrid', CheckerResults), LAMBDA pairs :
                 /\ invalid_subsections' = TypeOf(SelectSeq(pairs, IsInvalid))
                 /\ is_complete' = AllComplete(pairs))]_vars

\* the call that exhausted (2,1) has returned: the top Entry has the value
\* 0 and the cell is empty, below it lies the Entry of (5,1) with its 2
C34_Witness ==
    /\ input = BacktrackBoard
    /\ JustExhausted
    /\ ret.op = "Solver::next"
    /\ Last(entries_added) = [position |-> <<2, 1>>, value |-> 0, previous_value |-> 9]
    /\ get_cell(cells, side_size, <<2, 1>>) = <<0>>
    /\ get_cell(cells, side_size, <<5, 1>>) = <<2>>

\* undo_entry called on the game gm until it returns none: the game left,
\* the number of calls that returned an Entry (counted from n), and whether
\* a call aborted
RECURSIVE UndoAll(_, _)
UndoAll(gm, n) ==
    Then(undo_entry(gm), LAMBDA u :
        IF u.res = "None" THEN [panic |-> FALSE, steps |-> n, game |-> gm]
        ELSE IF u.res = "panic" THEN [panic |-> TRUE, steps |-> n, game |-> u.game]
        ELSE UndoAll(u.game, n + 1))

\* C35: from every state of a game built by Game::new and changed by
\* add_entry and unset_cell calls, failed ones among them, undo_entry called
\* until it returns none never aborts, returns as many Entries as the
\* history holds, and leaves every cell at its initial value.
C35_HistoryUnwinds ==
    phase = "game" =>
        Then(UndoAll(TheGame, 0), LAMBDA u :
            /\ ~u.panic
            /\ u.steps = Len(entries)
            /\ u.game.entries = << >>
            /\ u.game.grid.cells = input)

\* after add_entry((4,0), 1) and unset_cell((4,0)) the history holds the
\* Entry of each, and two undo_entry calls unwind it
C35_Witness ==
    /\ phase = "game"
    /\ ret.op = "unset_cell" /\ ret.res = "Ok"
    /\ entries = << [position |-> <<4, 0>>, value |-> 1, previous_value |-> 0],
                    [position |-> <<4, 0>>, value |-> 0, previous_value |-> 1] >>
    /\ UndoAll(TheGame, 0).steps = 2
    /\ UndoAll(TheGame, 0).game.grid.cells = input

====
